---------------------------- MODULE Spec2Model ----------------------------
(***************************************************************************)
(* Inventory application (PSTELECOM991/nutriming-Ai): one client session   *)
(* of the store-backed App component (src/App.tsx lines 14-537, the same   *)
(* handlers as src/unnamed/part_002) together with the remote store        *)
(* (src/unnamed/part_000 lines 110-159) and its change notifications.      *)
(*                                                                         *)
(* An async handler is a record in `calls`: the values its closure         *)
(* captured when it was invoked and the await it is suspended at.  The     *)
(* store processes a request in one step and the client resumes in a       *)
(* later step, so that other handlers, notifications and fetch responses   *)
(* interleave as they do on the event loop.                                *)
(*                                                                         *)
(* Of a Product the model keeps id, quantity, minThreshold and boxNumber;  *)
(* of a Transaction id, productId, type, quantity, reason and timestamp.   *)
(* Names, SKUs, prices and descriptions are carried through unchanged by   *)
(* every handler modelled here and are left out.  Date.now() and the       *)
(* random id generator are the logical clock `clock`, which ticks once     *)
(* per form submission.                                                    *)
(***************************************************************************)
EXTENDS Integers, Sequences, FiniteSets, Bags, TLC

\* ------------------------------------------------------------------ bounds
\* Form submissions explored per behaviour.
MaxOps == 2
\* Largest amount typed into the stock form (the form enforces min="1").
MaxAmount == 2
\* Stock-in is explored only while the quantity stays at most MaxQty.
MaxQty == 3

\* --------------------------------------------------------------- constants
\* fetchTransactions: .limit(100)
TxFetchLimit == 100
\* saveProduct: minThreshold: data.minThreshold || 5
DefaultMinThreshold == 5

\* enum TransactionType
TxIN == "IN"
TxOUT == "OUT"
TransactionType == {TxIN, TxOUT}

\* The null of `Product | null` and of a call that carries no Transaction.
NoProduct == [id |-> 0, quantity |-> 0, minThreshold |-> 0, boxNumber |-> ""]
NoTx == [id |-> 0, productId |-> 0, type |-> TxIN, quantity |-> 0, reason |-> "", timestamp |-> 0]

\* The rows of the remote products table when the session starts.
InitialProducts ==
  { [id |-> 1, quantity |-> 1, minThreshold |-> 1, boxNumber |-> "A"],
    [id |-> 2, quantity |-> 0, minThreshold |-> 1, boxNumber |-> "A"] }

\* Values the user can type into the forms.
Amounts == 1..MaxAmount
NewBoxInputs == {"", "B"}
ThresholdInputs == {0, 2}
InitialStockInputs == {-1, 2}
ProductFormBoxInputs == {"A"}
Reason == "sale"
\* Math.random().toString(36): an id no other record has
NewId(now) == 10 + now

VARIABLES
  dbProducts,          \* remote table products (rows keyed by id)
  dbTransactions,      \* remote table transactions, in insertion order
  productEvents,       \* postgres_changes on products not yet handled
  transactionEvents,   \* postgres_changes INSERT on transactions not yet handled
  fetches,             \* bag of fetch responses on their way to the client
  products,            \* useState<Product[]>
  transactions,        \* useState<Transaction[]>
  isLoadingDB,
  initData,            \* the mount effect's initData(): [pc, p, tx]
  isModalOpen, modalType, selectedProduct, stockActionType,
  calls,               \* suspended processStockTransaction / saveProduct calls: what
                       \* the closure holds (type, amount, product, the record
                       \* `written` to the store, the Transaction `tx`) and the
                       \* await it is at (pc)
  alerts,              \* messages shown with alert(), oldest first
  clock,               \* Date.now() / Math.random(): one tick per submission
  \* --- the hooks of the App component (stats, insight analysis)
  isOnline,            \* useState(navigator.onLine)
  lang,                \* useState<Language>
  showWelcome,         \* useState(sessionSeen !== 'true')
  aiAnalysis,          \* useState<AIAnalysisResult | null>
  isGeneratingInsights,
  stats,               \* the value useMemo holds for stats
  hookDeps,            \* the dependencies the last render left with useMemo (memo)
                       \* and with the analysis useEffect (effect)
  insightCalls,        \* runAnalysis calls suspended at await getInventoryInsights
  analysisLog,         \* the requests sent to the insight service so far, oldest
                       \* first: how each was started and what it was sent
  refreshClicks,       \* clicks on the analysis tab's refresh button so far
  \* --- CSV export and import (src/services/csvService.ts)
  csvText,             \* the CSV file at hand, a sequence of characters
  csvSource,           \* what the file at hand was written from
  importedProducts,    \* what the last parseCSV returned
  lastParse,           \* the last parseCSV call: its text and existingProducts
  \* --- Google Drive backup (src/services/driveService.ts)
  isDriveConnected,    \* useState(false)
  driveFile,           \* the backup file on the Drive
  \* --- uploadToDrive, step by step, from two sessions of one account
  driveFiles,          \* the Drive's files named BACKUP_FILENAME, as listed
  uploads,             \* each session's uploadToDrive call: [pc, fileId, data]
  lastUploaded         \* the data of the upload request the Drive served last

dbVars == <<dbProducts, dbTransactions, productEvents, transactionEvents, fetches>>
memVars == <<products, transactions>>
uiVars == <<isModalOpen, modalType, selectedProduct, stockActionType>>
hookVars == <<isOnline, lang, showWelcome, aiAnalysis, isGeneratingInsights,
              stats, hookDeps, insightCalls, analysisLog, refreshClicks>>
\* What the specification of the stock handlers leaves alone.
csvVars == <<csvText, csvSource, importedProducts, lastParse>>
driveVars == <<isDriveConnected, driveFile>>
uploadVars == <<driveFiles, uploads, lastUploaded>>
sideVars == <<hookVars, csvVars, driveVars, uploadVars>>
vars == <<dbProducts, dbTransactions, productEvents, transactionEvents, fetches,
          products, transactions, isLoadingDB, initData,
          isModalOpen, modalType, selectedProduct, stockActionType,
          calls, alerts, clock, sideVars>>

\* ----------------------------------------------------------------- helpers
Max(a, b) == IF a >= b THEN a ELSE b
Min(a, b) == IF a <= b THEN a ELSE b

Range(s) == {s[i] : i \in 1..Len(s)}

\* Array.prototype.find: the first element with the id, or null
Find(s, id) ==
  IF \E i \in 1..Len(s) : s[i].id = id
  THEN s[CHOOSE i \in 1..Len(s) : s[i].id = id /\ \A j \in 1..(i-1) : s[j].id # id]
  ELSE NoProduct

RECURSIVE SumQuantity(_)
SumQuantity(s) == IF s = <<>> THEN 0 ELSE Head(s).quantity + SumQuantity(Tail(s))

\* .order('name', {ascending: true}): the rows of a table as a list.  Names are
\* not modelled; a product's name is taken to sort as its id does.
RECURSIVE OrderByName(_)
OrderByName(rows) ==
  IF rows = {} THEN <<>>
  ELSE LET r == CHOOSE x \in rows : \A y \in rows : x.id <= y.id
       IN <<r>> \o OrderByName(rows \ {r})

\* .order('timestamp', {ascending: false})
RECURSIVE OrderByTimestampDesc(_)
OrderByTimestampDesc(rows) ==
  IF rows = {} THEN <<>>
  ELSE LET r == CHOOSE x \in rows : \A y \in rows :
                   x.timestamp > y.timestamp \/ (x.timestamp = y.timestamp /\ x.id >= y.id)
       IN <<r>> \o OrderByTimestampDesc(rows \ {r})

\* ------------------------------------------------------------- remote store
\* supabase.from('products').select('*').order('name')
fetchProducts == OrderByName(dbProducts)

\* supabase.from('transactions').select('*').order('timestamp', desc).limit(100)
fetchTransactions ==
  LET all == OrderByTimestampDesc(Range(dbTransactions))
  IN SubSeq(all, 1, Min(TxFetchLimit, Len(all)))

\* supabase.from('products').upsert(product): the row with the product's id is
\* replaced, or inserted when there is none.
upsertProduct(table, product) == {r \in table : r.id # product.id} \cup {product}

\* supabase.from('transactions').insert(transaction)
logTransaction(table, transaction) == Append(table, transaction)

\* -------------------------------------------------------------------- stats
\* stats.totalItems
totalItems(ps) == SumQuantity(ps)
IsLowStock(p) == p.quantity > 0 /\ p.quantity <= p.minThreshold
IsOutOfStock(p) == p.quantity <= 0
\* stats.lowStockItems, stats.outOfStock
lowStockItems(ps) == Len(SelectSeq(ps, IsLowStock))
outOfStock(ps) == Len(SelectSeq(ps, IsOutOfStock))

\* A badge that takes a quantity of 0 for stock that is merely low.
StatusBadgeStrict(product) ==
  IF product.quantity < 0 THEN "outOfStock"
  ELSE IF product.quantity <= product.minThreshold THEN "lowStock"
  ELSE "inStock"

\* InventoryTable's StatusBadge: the label shown for a row
StatusBadge(product) ==
  IF product.quantity <= 0 THEN "outOfStock"
  ELSE IF product.quantity <= product.minThreshold THEN "lowStock"
  ELSE "inStock"

\* ------------------------------------------------- the component's hooks
\* stats.totalValue
RECURSIVE totalValue(_)
totalValue(ps) ==
  IF ps = <<>> THEN 0
  ELSE Head(ps).quantity * Head(ps).sellingPrice + totalValue(Tail(ps))

\* The object the stats callback returns for a product list.
InventoryStats(ps) ==
  [totalItems |-> totalItems(ps), lowStockItems |-> lowStockItems(ps),
   totalValue |-> totalValue(ps), outOfStock |-> outOfStock(ps)]

\* A stats hook with an empty dependency array: computed on mount only.
useMemoStatsOnce(memo, deps, ps) == memo

\* useMemo(() => ..., [products]): the callback runs again when the products
\* the render sees are not the ones the memo was computed for.
useMemoStats(memo, deps, ps) == IF ps # deps THEN InventoryStats(ps) ELSE memo

\* [products.length, isOnline, lang, showWelcome]
EffectDeps(ps, online, lg, welcome) == <<Len(ps), online, lg, welcome>>

\* Two of the languages of type Language.
Language == {"en", "bn"}
NoAnalysis == [summary |-> "", insights |-> <<>>, forecast |-> <<>>, null |-> TRUE]

\* The hooks right after the component mounted with no products.
HooksMounted ==
  /\ aiAnalysis = NoAnalysis
  /\ isGeneratingInsights = FALSE
  /\ stats = InventoryStats(<<>>)
  /\ hookDeps = [memo |-> <<>>, effect |-> EffectDeps(<<>>, isOnline, lang, showWelcome)]
  /\ insightCalls = {}
  /\ analysisLog = <<>>
  /\ refreshClicks = 0

\* The stock handlers are explored with the hooks left as mounted.
HooksAtRest ==
  /\ isOnline = TRUE /\ lang = "en" /\ showWelcome = TRUE
  /\ HooksMounted

\* No CSV file has been written or parsed.
NoSource == [kind |-> "none", rows |-> <<>>]
NotParsed ==
  [parsed |-> FALSE, text |-> <<>>, source |-> NoSource,
   existingProducts |-> <<>>, calls |-> 0, drawn |-> 0]
CsvAtRest ==
  /\ csvText = <<>> /\ csvSource = NoSource
  /\ importedProducts = <<>> /\ lastParse = NotParsed

\* No Drive account is connected and the Drive holds no backup file.
NoBackup == [exists |-> FALSE, products |-> <<>>, transactions |-> <<>>]
\* The browser sessions signed in to the one Google account.
Sessions == {1, 2}
NoUpload == [pc |-> "idle", fileId |-> 0, data |-> 0]
DriveAtRest ==
  /\ isDriveConnected = FALSE /\ driveFile = NoBackup
  /\ driveFiles = <<>> /\ uploads = [s \in Sessions |-> NoUpload] /\ lastUploaded = 0

\* -------------------------------------------------------------------- Init
Init ==
  /\ dbProducts = InitialProducts
  /\ dbTransactions = <<>>
  /\ productEvents = 0
  /\ transactionEvents = 0
  /\ fetches = EmptyBag
  /\ products = <<>>
  /\ transactions = <<>>
  /\ isLoadingDB = TRUE
  /\ initData = [pc |-> "fetchProducts", p |-> <<>>, tx |-> <<>>]
  /\ isModalOpen = FALSE
  /\ modalType = "STOCK_ACTION"
  /\ selectedProduct = NoProduct
  /\ stockActionType = TxIN
  /\ calls = {}
  /\ alerts = <<>>
  /\ clock = 0
  /\ HooksAtRest
  /\ CsvAtRest
  /\ DriveAtRest

\* ------------------------------------------------------- mount: initData()
\* const p = await fetchProducts(): the store answers the read, and the client
\* goes on to send the next one.
InitFetchProducts ==
  /\ initData.pc = "fetchProducts"
  /\ initData' = [initData EXCEPT !.pc = "fetchTransactions", !.p = fetchProducts]
  /\ UNCHANGED <<dbVars, memVars, isLoadingDB, uiVars, calls, alerts, clock, sideVars>>

\* const tx = await fetchTransactions(): the store answers the read.
InitFetchTransactions ==
  /\ initData.pc = "fetchTransactions"
  /\ initData' = [initData EXCEPT !.pc = "loaded", !.tx = fetchTransactions]
  /\ UNCHANGED <<dbVars, memVars, isLoadingDB, uiVars, calls, alerts, clock, sideVars>>

\* if (p.length > 0) setProducts(p); if (tx.length > 0) setTransactions(tx);
\* setIsLoadingDB(false)
InitDataDone ==
  /\ initData.pc = "loaded"
  /\ products' = IF Len(initData.p) > 0 THEN initData.p ELSE products
  /\ transactions' = IF Len(initData.tx) > 0 THEN initData.tx ELSE transactions
  /\ isLoadingDB' = FALSE
  /\ initData' = [pc |-> "done", p |-> <<>>, tx |-> <<>>]
  /\ UNCHANGED <<dbVars, uiVars, calls, alerts, clock, sideVars>>

\* ------------------------------------------------- realtime subscriptions
\* on postgres_changes(products): the handler runs and the store answers its
\* fetchProducts(); the answer travels back in `fetches`.
OnProductsChange ==
  /\ productEvents > 0
  /\ productEvents' = productEvents - 1
  /\ fetches' = fetches (+) SetToBag({[table |-> "products", data |-> fetchProducts]})
  /\ UNCHANGED <<dbProducts, dbTransactions, transactionEvents, memVars, isLoadingDB,
                 initData, uiVars, calls, alerts, clock, sideVars>>

\* on postgres_changes(INSERT, transactions)
OnTransactionInsert ==
  /\ transactionEvents > 0
  /\ transactionEvents' = transactionEvents - 1
  /\ fetches' = fetches (+) SetToBag({[table |-> "transactions", data |-> fetchTransactions]})
  /\ UNCHANGED <<dbProducts, dbTransactions, productEvents, memVars, isLoadingDB,
                 initData, uiVars, calls, alerts, clock, sideVars>>

\* const updated = await fetchProducts(); setProducts(updated)
ProductsFetched ==
  \E f \in BagToSet(fetches) :
    /\ f.table = "products"
    /\ products' = f.data
    /\ fetches' = fetches (-) SetToBag({f})
    /\ UNCHANGED <<dbProducts, dbTransactions, productEvents, transactionEvents,
                   transactions, isLoadingDB, initData, uiVars, calls, alerts, clock, sideVars>>

\* const updated = await fetchTransactions(); setTransactions(updated)
TransactionsFetched ==
  \E f \in BagToSet(fetches) :
    /\ f.table = "transactions"
    /\ transactions' = f.data
    /\ fetches' = fetches (-) SetToBag({f})
    /\ UNCHANGED <<dbProducts, dbTransactions, productEvents, transactionEvents,
                   products, isLoadingDB, initData, uiVars, calls, alerts, clock, sideVars>>

\* ------------------------------------------------------------------ modals
openStockAction(type, product) ==
  /\ stockActionType' = type
  /\ selectedProduct' = product
  /\ modalType' = "STOCK_ACTION"
  /\ isModalOpen' = TRUE

openProductForm(product) ==
  /\ selectedProduct' = product
  /\ modalType' = "PRODUCT_FORM"
  /\ isModalOpen' = TRUE
  /\ UNCHANGED stockActionType

\* The quick action bar (no product) or a row of the inventory table.
OpenStockAction ==
  /\ ~isModalOpen /\ clock < MaxOps
  /\ \E type \in TransactionType, product \in Range(products) \cup {NoProduct} :
       openStockAction(type, product)
  /\ UNCHANGED <<dbVars, memVars, isLoadingDB, initData, calls, alerts, clock, sideVars>>

\* <select name="productId" onChange=...>, shown while no product is selected
SelectProduct ==
  /\ isModalOpen /\ modalType = "STOCK_ACTION" /\ selectedProduct = NoProduct
  /\ clock < MaxOps
  /\ \E p \in Range(products) : selectedProduct' = Find(products, p.id)
  /\ UNCHANGED <<dbVars, memVars, isLoadingDB, initData, isModalOpen, modalType,
                 stockActionType, calls, alerts, clock, sideVars>>

\* The header's add button (no product) or a row's edit button.
OpenProductForm ==
  /\ ~isModalOpen /\ clock < MaxOps
  /\ \E product \in Range(products) \cup {NoProduct} : openProductForm(product)
  /\ UNCHANGED <<dbVars, memVars, isLoadingDB, initData, calls, alerts, clock, sideVars>>

\* onClick={() => setIsModalOpen(false)}
CloseModal ==
  /\ isModalOpen /\ clock < MaxOps
  /\ isModalOpen' = FALSE
  /\ UNCHANGED <<dbVars, memVars, isLoadingDB, initData, modalType, selectedProduct,
                 stockActionType, calls, alerts, clock, sideVars>>

\* setIsModalOpen(false); setSelectedProduct(null), the end of both handlers
closeModalAndDeselect ==
  /\ isModalOpen' = FALSE
  /\ selectedProduct' = NoProduct
  /\ UNCHANGED <<modalType, stockActionType>>

\* --------------------------------------------------- processStockTransaction
newQty(type, product, amount) ==
  IF type = TxIN THEN product.quantity + amount ELSE Max(0, product.quantity - amount)

\* A movement that never moves the product to another box.
updatedProductKeepingBox(type, product, amount, newBoxNumber) ==
  [product EXCEPT !.quantity = newQty(type, product, amount)]

updatedProduct(type, product, amount, newBoxNumber) ==
  [product EXCEPT !.quantity = newQty(type, product, amount),
                  !.boxNumber = IF newBoxNumber # "" THEN newBoxNumber ELSE product.boxNumber]

\* A ledger that records the effective amount of a clamped stock-out.
newTxEffectiveAmount(now, type, product, amount, reason, newBoxNumber) ==
  [id |-> now, productId |-> product.id, type |-> type,
   quantity |-> IF type = TxIN THEN amount ELSE Min(amount, product.quantity),
   reason |-> IF newBoxNumber # "" /\ newBoxNumber # product.boxNumber
              THEN reason \o " (Box: " \o newBoxNumber \o ")" ELSE reason,
   timestamp |-> now]

newTx(now, type, product, amount, reason, newBoxNumber) ==
  [id |-> now, productId |-> product.id, type |-> type, quantity |-> amount,
   reason |-> IF newBoxNumber # "" /\ newBoxNumber # product.boxNumber
              THEN reason \o " (Box: " \o newBoxNumber \o ")" ELSE reason,
   timestamp |-> now]

\* An unknown product reported to the user instead of skipped silently.
processStockTransactionAlerting(productId, amount, reason, newBoxNumber) ==
  LET product == Find(products, productId)
      now == clock + 1
  IN /\ clock' = now
     /\ IF product = NoProduct
        THEN /\ alerts' = Append(alerts, "Product not found.")
             /\ UNCHANGED calls
        ELSE /\ calls' = calls \cup
                  {[kind |-> "stock", pc |-> "upsertProduct", at |-> now,
                    type |-> stockActionType, amount |-> amount, product |-> product,
                    written |-> updatedProduct(stockActionType, product, amount, newBoxNumber),
                    tx |-> newTx(now, stockActionType, product, amount, reason, newBoxNumber)]}
             /\ UNCHANGED alerts
     /\ UNCHANGED <<dbVars, memVars, isLoadingDB, initData, uiVars, sideVars>>

\* The synchronous part, up to the first await: the product is looked up in the
\* products of the current render and the request for upsertProduct is sent.
processStockTransaction(productId, amount, reason, newBoxNumber) ==
  LET product == Find(products, productId)
      now == clock + 1
  IN /\ clock' = now
     /\ IF product = NoProduct
        THEN UNCHANGED calls
        ELSE calls' = calls \cup
               {[kind |-> "stock", pc |-> "upsertProduct", at |-> now,
                 type |-> stockActionType, amount |-> amount, product |-> product,
                 written |-> updatedProduct(stockActionType, product, amount, newBoxNumber),
                 tx |-> newTx(now, stockActionType, product, amount, reason, newBoxNumber)]}
     /\ UNCHANGED <<dbVars, memVars, isLoadingDB, initData, uiVars, alerts, sideVars>>

\* The stock form's onSubmit; its productId is the selected product's id.
SubmitStockForm ==
  /\ isModalOpen /\ modalType = "STOCK_ACTION" /\ selectedProduct # NoProduct
  /\ clock < MaxOps
  /\ \E amount \in Amounts, newBoxNumber \in NewBoxInputs :
       /\ stockActionType = TxIN => Find(products, selectedProduct.id).quantity + amount <= MaxQty
       /\ processStockTransaction(selectedProduct.id, amount, Reason, newBoxNumber)

\* -------------------------------------------------------------- saveProduct
finalProduct(now, selected, data) ==
  IF selected # NoProduct
  THEN [selected EXCEPT !.quantity = data.quantity, !.minThreshold = data.minThreshold,
                        !.boxNumber = data.boxNumber]
  ELSE [id |-> NewId(now),
        quantity |-> data.quantity,
        minThreshold |-> IF data.minThreshold # 0 THEN data.minThreshold ELSE DefaultMinThreshold,
        boxNumber |-> IF data.boxNumber # "" THEN data.boxNumber ELSE "N/A"]

saveProduct(data) ==
  LET now == clock + 1
  IN /\ clock' = now
     /\ calls' = calls \cup
          {[kind |-> "save", pc |-> "upsertProduct", at |-> now,
            type |-> TxIN, amount |-> 0, product |-> selectedProduct,
            written |-> finalProduct(now, selectedProduct, data), tx |-> NoTx]}
     /\ UNCHANGED <<dbVars, memVars, isLoadingDB, initData, uiVars, alerts, sideVars>>

\* The product form's onSubmit: an edit keeps the quantity of the product the
\* form was opened with, a creation takes the initialStock field.
SubmitProductForm ==
  /\ isModalOpen /\ modalType = "PRODUCT_FORM"
  /\ clock < MaxOps
  /\ \E threshold \in ThresholdInputs, boxNumber \in ProductFormBoxInputs,
        initialStock \in InitialStockInputs :
       saveProduct([minThreshold |-> threshold, boxNumber |-> boxNumber,
                    quantity |-> IF selectedProduct # NoProduct
                                 THEN selectedProduct.quantity ELSE initialStock])

\* ------------------------------------------------- the store serves a write
WithPc(c, pc) == [c EXCEPT !.pc = pc]

\* upsertProduct's request reaches the store, which applies it (and announces
\* the change) or rejects it.
StoreUpsertProduct ==
  \E c \in calls :
    /\ c.pc = "upsertProduct"
    /\ \/ /\ dbProducts' = upsertProduct(dbProducts, c.written)
          /\ productEvents' = productEvents + 1
          /\ calls' = (calls \ {c}) \cup {WithPc(c, "upsertProductOk")}
       \/ /\ calls' = (calls \ {c}) \cup {WithPc(c, "upsertProductErr")}
          /\ UNCHANGED <<dbProducts, productEvents>>
    /\ UNCHANGED <<dbTransactions, transactionEvents, fetches, memVars, isLoadingDB,
                   initData, uiVars, alerts, clock, sideVars>>

\* logTransaction's request reaches the store.
StoreLogTransaction ==
  \E c \in calls :
    /\ c.pc = "logTransaction"
    /\ \/ /\ dbTransactions' = logTransaction(dbTransactions, c.tx)
          /\ transactionEvents' = transactionEvents + 1
          /\ calls' = (calls \ {c}) \cup {WithPc(c, "logTransactionOk")}
       \/ /\ calls' = (calls \ {c}) \cup {WithPc(c, "logTransactionErr")}
          /\ UNCHANGED <<dbTransactions, transactionEvents>>
    /\ UNCHANGED <<dbProducts, productEvents, fetches, memVars, isLoadingDB,
                   initData, uiVars, alerts, clock, sideVars>>

\* ------------------------------------------- the handlers resume after await
\* setProducts(prev => prev.map(p => p.id === productId ? updatedProduct : p))
ReplaceById(prev, id, product) ==
  [i \in 1..Len(prev) |-> IF prev[i].id = id THEN product ELSE prev[i]]

\* await upsertProduct(updatedProduct) returned: logTransaction is sent.
StockUpsertReturned ==
  \E c \in calls :
    /\ c.kind = "stock" /\ c.pc = "upsertProductOk"
    /\ calls' = (calls \ {c}) \cup {WithPc(c, "logTransaction")}
    /\ UNCHANGED <<dbVars, memVars, isLoadingDB, initData, uiVars, alerts, clock, sideVars>>

\* await logTransaction(newTx) returned: the two state updates, then the modal
\* is closed.
StockLogReturned ==
  \E c \in calls :
    /\ c.kind = "stock" /\ c.pc = "logTransactionOk"
    /\ products' = ReplaceById(products, c.product.id, c.written)
    /\ transactions' = <<c.tx>> \o transactions
    /\ closeModalAndDeselect
    /\ calls' = calls \ {c}
    /\ UNCHANGED <<dbVars, isLoadingDB, initData, alerts, clock, sideVars>>

\* catch (e) { alert("Cloud Sync Error. Please check connection.") }
StockFailed ==
  \E c \in calls :
    /\ c.kind = "stock" /\ c.pc \in {"upsertProductErr", "logTransactionErr"}
    /\ alerts' = Append(alerts, "Cloud Sync Error. Please check connection.")
    /\ closeModalAndDeselect
    /\ calls' = calls \ {c}
    /\ UNCHANGED <<dbVars, memVars, isLoadingDB, initData, clock, sideVars>>

\* await upsertProduct(finalProduct) returned: setProducts(prev => selectedProduct
\* ? prev.map(...) : [...prev, finalProduct])
SaveReturned ==
  \E c \in calls :
    /\ c.kind = "save" /\ c.pc = "upsertProductOk"
    /\ products' = IF c.product # NoProduct
                   THEN ReplaceById(products, c.product.id, c.written)
                   ELSE Append(products, c.written)
    /\ closeModalAndDeselect
    /\ calls' = calls \ {c}
    /\ UNCHANGED <<dbVars, transactions, isLoadingDB, initData, alerts, clock, sideVars>>

\* catch (e) { alert("Failed to save to cloud.") }
SaveFailed ==
  \E c \in calls :
    /\ c.kind = "save" /\ c.pc = "upsertProductErr"
    /\ alerts' = Append(alerts, "Failed to save to cloud.")
    /\ closeModalAndDeselect
    /\ calls' = calls \ {c}
    /\ UNCHANGED <<dbVars, memVars, isLoadingDB, initData, clock, sideVars>>

\* -------------------------------------------------------------------- Spec
Next ==
  \/ InitFetchProducts \/ InitFetchTransactions \/ InitDataDone
  \/ OnProductsChange \/ OnTransactionInsert \/ ProductsFetched \/ TransactionsFetched
  \/ OpenStockAction \/ SelectProduct \/ OpenProductForm \/ CloseModal
  \/ SubmitStockForm \/ SubmitProductForm
  \/ StoreUpsertProduct \/ StoreLogTransaction
  \/ StockUpsertReturned \/ StockLogReturned \/ StockFailed
  \/ SaveReturned \/ SaveFailed

Spec == Init /\ [][Next]_vars

\* ================================================================== claims
Ids(ps) == {ps[i].id : i \in 1..Len(ps)}
\* No handler, notification or response is outstanding.
Quiescent ==
  /\ calls = {} /\ fetches = EmptyBag
  /\ productEvents = 0 /\ transactionEvents = 0
  /\ initData.pc = "done"

\* C1: a stock movement whose two store writes are accepted adds exactly one
\* Transaction to the store's log (when logTransaction is applied) and exactly
\* one to the in-memory log (when the handler resumes), and that Transaction
\* carries the requested amount, the direction and the product of the movement,
\* whether or not the stock-out was clamped.
C1_OneTransactionPerMovement ==
  [][\A c \in calls :
       c.kind = "stock" =>
         /\ (c.pc = "logTransaction" /\ WithPc(c, "logTransactionOk") \in calls')
              => dbTransactions' = Append(dbTransactions, c.tx)
         /\ (c.pc = "logTransactionOk" /\ c \notin calls')
              => /\ transactions' = <<c.tx>> \o transactions
                 /\ c.tx.quantity = c.amount
                 /\ c.tx.type = c.type
                 /\ c.tx.productId = c.product.id]_vars

\* C1 witness: the only movement so far took 2 out of the 1 in stock; it is
\* complete, the quantity is 0 and the logged quantity is 2.
C1_Witness ==
  /\ clock = 1 /\ calls = {}
  /\ Len(transactions) = 1
  /\ transactions[1].type = TxOUT /\ transactions[1].quantity = 2
  /\ transactions[1].productId = 1
  /\ Find(products, 1).quantity = 0
  /\ Len(dbTransactions) = 1 /\ dbTransactions[1] = transactions[1]

\* C3 (as claimed): every product quantity, in memory and in the store, is >= 0.
C3_QuantitiesNonNegative ==
  /\ \A i \in 1..Len(products) : products[i].quantity >= 0
  /\ \A r \in dbProducts : r.quantity >= 0

\* C7: submitting the stock form for a productId that the in-memory products do
\* not hold changes nothing: no state update, no request to the store, no alert,
\* and the modal stays as it is.
C7_UnknownProductIsNoOp ==
  [][(/\ clock' # clock
      /\ isModalOpen /\ modalType = "STOCK_ACTION"
      /\ Find(products, selectedProduct.id) = NoProduct)
     => UNCHANGED <<dbVars, memVars, isLoadingDB, initData, uiVars, calls, alerts>>]_vars

\* C7 witness: the stock form is still open on a product that memory no longer
\* holds, both submissions are used up and nothing is in flight, logged or
\* alerted: the last submission was skipped.
C7_Witness ==
  /\ clock = 2 /\ calls = {} /\ alerts = <<>> /\ dbTransactions = <<>>
  /\ isModalOpen /\ modalType = "STOCK_ACTION"
  /\ selectedProduct # NoProduct
  /\ Find(products, selectedProduct.id) = NoProduct

\* C10: for every product in memory the stats filters and the row badge agree:
\* low stock iff 0 < q <= m, out of stock iff q <= 0, never both, one of them
\* whenever q <= m, and the counters count exactly the rows with that badge.
C10_StockClasses ==
  /\ \A i \in 1..Len(products) :
       LET p == products[i] IN
       /\ IsLowStock(p) <=> (0 < p.quantity /\ p.quantity <= p.minThreshold)
       /\ IsOutOfStock(p) <=> p.quantity <= 0
       /\ ~(IsLowStock(p) /\ IsOutOfStock(p))
       /\ p.quantity <= p.minThreshold => (IsLowStock(p) \/ IsOutOfStock(p))
       /\ StatusBadge(p) = "lowStock" <=> IsLowStock(p)
       /\ StatusBadge(p) = "outOfStock" <=> IsOutOfStock(p)
  /\ lowStockItems(products) =
       Cardinality({i \in 1..Len(products) : StatusBadge(products[i]) = "lowStock"})
  /\ outOfStock(products) =
       Cardinality({i \in 1..Len(products) : StatusBadge(products[i]) = "outOfStock"})

\* C10 witness: memory holds a low-stock product, an out-of-stock product with
\* quantity 0 and a product in stock above its threshold.
C10_Witness ==
  /\ \E i \in 1..Len(products) : IsLowStock(products[i])
  /\ \E i \in 1..Len(products) : products[i].quantity = 0 /\ IsOutOfStock(products[i])
  /\ \E i \in 1..Len(products) : StatusBadge(products[i]) = "inStock"

\* ------------------------------------------------- the ledger, replayed
InitialQuantity(id) == (CHOOSE r \in InitialProducts : r.id = id).quantity
InitialIds == {r.id : r \in InitialProducts}
\* The effect the transaction engine defines for one movement on a quantity.
ApplyTx(q, tx) ==
  IF tx.type = TxIN THEN q + tx.quantity ELSE Max(0, q - tx.quantity)
\* The quantity of product id after the movements of log, oldest first.
RECURSIVE Replay(_, _, _)
Replay(q, log, id) ==
  IF log = <<>> THEN q
  ELSE Replay(IF Head(log).productId = id THEN ApplyTx(q, Head(log)) ELSE q,
              Tail(log), id)
\* The stored movements in the order they were issued (timestamps ascending).
RECURSIVE Reverse(_)
Reverse(s) == IF s = <<>> THEN <<>> ELSE Append(Reverse(Tail(s)), Head(s))
ByIssuance == Reverse(OrderByTimestampDesc(Range(dbTransactions)))
\* Every form submission so far was a stock movement on a product of the
\* initial catalog, and the store accepted both writes of each.
OnlyMovements ==
  /\ Len(dbTransactions) = clock
  /\ \A r \in dbProducts : r.id \in InitialIds

\* C2 (as claimed): when the session's submissions were all successful stock
\* movements and nothing is outstanding, every product's in-memory quantity is
\* its initial quantity with its movements applied in turn (IN adds A, OUT
\* leaves max(0, q - A)), a product without movements keeps its quantity, and
\* totalItems is the sum of those quantities.
C2_MovementArithmetic ==
  (Quiescent /\ OnlyMovements) =>
    /\ Ids(products) = InitialIds /\ Len(products) = Cardinality(InitialIds)
    /\ \A i \in 1..Len(products) :
         products[i].quantity =
           Replay(InitialQuantity(products[i].id), ByIssuance, products[i].id)
    /\ totalItems(products) =
         LET ps == OrderByName(InitialProducts)
             expected == [i \in 1..Len(ps) |->
                            [quantity |-> Replay(ps[i].quantity, ByIssuance, ps[i].id)]]
         IN SumQuantity(expected)

\* C4 (as claimed): while no handler is in flight, the stored quantity of every
\* product of the initial catalog is its initial quantity with exactly the
\* stored Transactions of that product applied: no quantity changed without
\* its Transaction.
C4_QuantityChangesAreLogged ==
  calls = {} =>
    \A r \in dbProducts :
      r.id \in InitialIds =>
        r.quantity = Replay(InitialQuantity(r.id), dbTransactions, r.id)

\* C5 (as claimed): at the step a stock movement reports that the store
\* rejected one of its writes, the in-memory quantity of the product equals the
\* stored quantity, the in-memory log holds the movement's Transaction iff the
\* stored log does, and the synchronization error is alerted.
C5_FailureLeavesMemoryConsistent ==
  [][\A c \in calls :
       (/\ calls = {c} /\ c.kind = "stock"
        /\ c.pc \in {"upsertProductErr", "logTransactionErr"}
        /\ c \notin calls')
       => /\ \A r \in dbProducts' :
               r.id = c.product.id => Find(products', r.id).quantity = r.quantity
          /\ (c.tx \in Range(transactions')) <=> (c.tx \in Range(dbTransactions'))
          /\ alerts' = Append(alerts, "Cloud Sync Error. Please check connection.")]_vars

\* C6 (as claimed): when two stock-ins on the same product are in flight
\* together and the store has accepted both writes of both, the stored quantity
\* is the initial quantity plus both amounts.
C6_NoLostDelta ==
  \A c1, c2 \in calls :
    (/\ c1.kind = "stock" /\ c2.kind = "stock" /\ c1.at < c2.at
     /\ c1.product.id = c2.product.id /\ c1.product.id \in InitialIds
     /\ c1.type = TxIN /\ c2.type = TxIN
     /\ c1.pc = "logTransactionOk" /\ c2.pc = "logTransactionOk")
    => \E r \in dbProducts :
         /\ r.id = c1.product.id
         /\ r.quantity = InitialQuantity(r.id) + c1.amount + c2.amount

\* C8 (as claimed): once every notification is handled, every fetch has
\* returned and no handler is in flight, the in-memory products are the
\* store's products.
C8_MemoryReconciled ==
  Quiescent => Range(products) = dbProducts

\* C9 (as claimed): after two successful stock movements on one product, with
\* nothing outstanding, the in-memory log lists Transactions newest first and
\* the in-memory quantity is the first movement applied and then the second.
C9_IssuanceOrder ==
  (/\ Quiescent /\ OnlyMovements /\ clock = 2
   /\ dbTransactions[1].productId = dbTransactions[2].productId)
  => /\ \A i, j \in 1..Len(transactions) :
          i < j => transactions[i].timestamp >= transactions[j].timestamp
     /\ LET id == dbTransactions[1].productId
        IN Find(products, id).quantity = Replay(InitialQuantity(id), ByIssuance, id)

\* C18 (as claimed): no step removes or alters a Transaction of the in-memory
\* log or of the store's log.
C18_TransactionsImmutable ==
  [][/\ \A i \in 1..Len(transactions) : transactions[i] \in Range(transactions')
     /\ \A i \in 1..Len(dbTransactions) : dbTransactions[i] \in Range(dbTransactions')]_vars

\* C19 (as claimed): when the save of an edited product reaches memory, the
\* log is unchanged, the list keeps its length and its ids, every product keeps
\* the quantity memory held for it just before, and products other than the
\* edited one are unchanged.
C19_EditKeepsQuantity ==
  [][\A c \in calls :
       (/\ c.kind = "save" /\ c.product # NoProduct
        /\ c.pc = "upsertProductOk" /\ c \notin calls')
       => /\ transactions' = transactions
          /\ Len(products') = Len(products)
          /\ \A i \in 1..Len(products) :
               /\ products'[i].id = products[i].id
               /\ products'[i].quantity = products[i].quantity
               /\ products[i].id # c.product.id => products'[i] = products[i]]_vars

\* ================================================== the hooks: stats, insights
\* One mounted App component seen through its hooks: the stats memo, the
\* analysis effect and runAnalysis.  Every handler that sets products ends in a
\* render; here the handlers are one step that replaces the product list.

\* Requests to the insight service explored per behaviour.
MaxAnalyses == 2
\* Clicks on the refresh button explored per behaviour.
MaxClicks == 1

\* Product lists the handlers can leave in memory (id, quantity, minThreshold,
\* sellingPrice).
PricedProduct(id, q, m, price) ==
  [id |-> id, quantity |-> q, minThreshold |-> m, sellingPrice |-> price, boxNumber |-> "A"]
ProductLists ==
  { <<>>,
    <<PricedProduct(1, 2, 1, 3)>>,
    <<PricedProduct(1, 0, 1, 3)>>,
    <<PricedProduct(1, 1, 1, 3), PricedProduct(2, -1, 5, 2)>> }

\* What the insight service can answer: the request is rejected, the service
\* reports an error, or it answers with a text.
NoResponse == [kind |-> "none", text |-> ""]
Responses ==
  { [kind |-> "rejected", text |-> ""],
    [kind |-> "serviceError", text |-> ""],
    [kind |-> "ok", text |-> ""],
    [kind |-> "ok", text |-> "Sorry, I cannot"],
    [kind |-> "ok", text |-> "null"],
    [kind |-> "ok", text |-> "{}"],
    [kind |-> "ok", text |-> "{summary, insights}"] }
Failures ==
  { r \in Responses : r.kind # "ok" \/ r.text \in {"Sorry, I cannot", "null"} }

\* JSON.parse on the texts above: the parsed value, or the SyntaxError it throws.
JSONparse(text) ==
  CASE text = "{}" -> [type |-> "object", summary |-> "", insights |-> <<>>]
    [] text = "{summary, insights}" ->
         [type |-> "object", summary |-> "Stock is healthy.", insights |-> <<"reorder">>]
    [] text = "null" -> [type |-> "null", summary |-> "", insights |-> <<>>]
    [] OTHER -> [type |-> "SyntaxError", summary |-> "", insights |-> <<>>]

\* The summary of the catch branch, in the session's language.
CouldNotGenerate(lg) ==
  IF lg = "en" THEN "Could not generate analysis." ELSE "(bn) Could not generate analysis."

\* An insight service wrapper whose failures reach the caller.
getInventoryInsightsThrowing(response, lg) ==
  IF response \in Failures
  THEN [threw |-> TRUE, value |-> NoAnalysis]
  ELSE LET result == JSONparse(IF response.text = "" THEN "{}" ELSE response.text)
       IN [threw |-> FALSE,
           value |-> [summary |-> IF result.summary # "" THEN result.summary
                                  ELSE "Analysis complete.",
                      insights |-> result.insights, forecast |-> <<>>, null |-> FALSE]]

\* getInventoryInsights from its await on: what the caller gets for a response.
\* A rejected request, JSON.parse's SyntaxError and the TypeError of reading
\* null.summary all end in the catch branch.
getInventoryInsights(response, lg) ==
  LET unavailable ==
        [threw |-> FALSE,
         value |-> [summary |-> CouldNotGenerate(lg), insights |-> <<>>,
                    forecast |-> <<>>, null |-> FALSE]]
  IN IF response.kind # "ok" THEN unavailable
     ELSE LET result == JSONparse(IF response.text = "" THEN "{}" ELSE response.text)
          IN IF result.type # "object" THEN unavailable
             ELSE [threw |-> FALSE,
                   value |-> [summary |-> IF result.summary # "" THEN result.summary
                                          ELSE "Analysis complete.",
                              insights |-> result.insights, forecast |-> <<>>,
                              null |-> FALSE]]

InsightTxLimit == 20

\* transactions.slice(-20): the last 20 elements of the list, or all of it
RecentTransactions(txs) ==
  SubSeq(txs, Max(1, Len(txs) - InsightTxLimit + 1), Len(txs))

\* The request runAnalysis sends, with what its closure holds.
SendAnalysis(how, ps, txs, lg) ==
  /\ isGeneratingInsights' = TRUE
  /\ insightCalls' = insightCalls \cup
       {[n |-> Len(analysisLog) + 1, lang |-> lg, pc |-> "generateContent",
         response |-> NoResponse]}
  /\ analysisLog' = Append(analysisLog,
       [how |-> how, products |-> ps, lang |-> lg,
        transactions |-> RecentTransactions(txs)])

\* A runAnalysis without the offline check.
runAnalysisUnchecked(how, ps, txs, online, lg) == SendAnalysis(how, ps, txs, lg)

\* runAnalysis up to its await
runAnalysis(how, ps, txs, online, lg) ==
  IF ~online
  THEN UNCHANGED <<isGeneratingInsights, insightCalls, analysisLog>>
  ELSE SendAnalysis(how, ps, txs, lg)

\* The render after a state update: the stats memo, then the analysis effect,
\* which runs when one of its dependencies differs from the last render's.
Render ==
  LET deps == EffectDeps(products', isOnline', lang', showWelcome')
  IN /\ stats' = useMemoStats(stats, hookDeps.memo, products')
     /\ hookDeps' = [memo |-> products', effect |-> deps]
     /\ IF deps # hookDeps.effect /\ isOnline' /\ ~showWelcome' /\ Len(products') > 0
        THEN runAnalysis("effect", products', transactions', isOnline', lang')
        ELSE UNCHANGED <<isGeneratingInsights, insightCalls, analysisLog>>

\* What the hooks' specification leaves alone.
stockVars ==
  <<dbVars, isLoadingDB, initData, uiVars, calls, alerts, clock, csvVars,
    driveVars, uploadVars>>

RenderInit ==
  /\ dbProducts = {} /\ dbTransactions = <<>>
  /\ productEvents = 0 /\ transactionEvents = 0 /\ fetches = EmptyBag
  /\ products = <<>> /\ transactions = <<>>
  /\ isLoadingDB = FALSE
  /\ initData = [pc |-> "done", p |-> <<>>, tx |-> <<>>]
  /\ isModalOpen = FALSE /\ modalType = "STOCK_ACTION"
  /\ selectedProduct = NoProduct /\ stockActionType = TxIN
  /\ calls = {} /\ alerts = <<>> /\ clock = 0
  /\ isOnline \in BOOLEAN /\ lang = "en" /\ showWelcome \in BOOLEAN
  /\ HooksMounted
  /\ CsvAtRest
  /\ DriveAtRest

\* setProducts(...) by any handler, subscription or initData.
SetProducts ==
  /\ Len(analysisLog) < MaxAnalyses
  /\ \E ps \in ProductLists : ps # products /\ products' = ps
  /\ UNCHANGED <<transactions, isOnline, lang, showWelcome, aiAnalysis, refreshClicks>>
  /\ Render
  /\ UNCHANGED stockVars

\* window 'online' / 'offline'
handleOnline ==
  /\ Len(analysisLog) < MaxAnalyses
  /\ ~isOnline /\ isOnline' = TRUE
  /\ UNCHANGED <<products, transactions, lang, showWelcome, aiAnalysis, refreshClicks>>
  /\ Render
  /\ UNCHANGED stockVars

handleOffline ==
  /\ Len(analysisLog) < MaxAnalyses
  /\ isOnline /\ isOnline' = FALSE
  /\ UNCHANGED <<products, transactions, lang, showWelcome, aiAnalysis, refreshClicks>>
  /\ Render
  /\ UNCHANGED stockVars

\* setLang from the language menu
SetLang ==
  /\ Len(analysisLog) < MaxAnalyses
  /\ \E lg \in Language : lg # lang /\ lang' = lg
  /\ UNCHANGED <<products, transactions, isOnline, showWelcome, aiAnalysis, refreshClicks>>
  /\ Render
  /\ UNCHANGED stockVars

handleWelcomeFinish ==
  /\ showWelcome /\ showWelcome' = FALSE
  /\ UNCHANGED <<products, transactions, isOnline, lang, aiAnalysis, refreshClicks>>
  /\ Render
  /\ UNCHANGED stockVars

\* <AIAnalysis onRefresh={runAnalysis} />
Refresh ==
  /\ ~showWelcome
  /\ refreshClicks < MaxClicks /\ Len(analysisLog) < MaxAnalyses
  /\ refreshClicks' = refreshClicks + 1
  /\ runAnalysis("refresh", products, transactions, isOnline, lang)
  /\ UNCHANGED <<products, transactions, isOnline, lang, showWelcome, aiAnalysis,
                 stats, hookDeps>>
  /\ UNCHANGED stockVars

\* The insight service answers a request.
InsightServiceResponds ==
  \E c \in insightCalls, r \in Responses :
    /\ c.pc = "generateContent"
    /\ insightCalls' = (insightCalls \ {c}) \cup {[c EXCEPT !.pc = "returned", !.response = r]}
    /\ UNCHANGED <<products, transactions, isOnline, lang, showWelcome, aiAnalysis,
                   isGeneratingInsights, stats, hookDeps, analysisLog, refreshClicks>>
    /\ UNCHANGED stockVars

\* runAnalysis resumes: setAiAnalysis(result) unless the await threw, and
\* finally setIsGeneratingInsights(false).
InsightReturned ==
  \E c \in insightCalls :
    /\ c.pc = "returned"
    /\ LET result == getInventoryInsights(c.response, c.lang)
       IN aiAnalysis' = IF result.threw THEN aiAnalysis ELSE result.value
    /\ isGeneratingInsights' = FALSE
    /\ insightCalls' = insightCalls \ {c}
    /\ UNCHANGED <<products, transactions, isOnline, lang, showWelcome,
                   stats, hookDeps, analysisLog, refreshClicks>>
    /\ UNCHANGED stockVars

RenderNext ==
  \/ SetProducts \/ handleOnline \/ handleOffline \/ SetLang \/ handleWelcomeFinish
  \/ Refresh \/ InsightServiceResponds \/ InsightReturned

SpecRender == RenderInit /\ [][RenderNext]_vars

\* ------------------------------------------------------ claims on the hooks
\* The sum of f[i] over i in 1..n.
RECURSIVE SumTo(_, _)
SumTo(f, n) == IF n = 0 THEN 0 ELSE f[n] + SumTo(f, n - 1)

\* C11: in every state the stats on display are the aggregation over the
\* in-memory products: totalItems the sum of the quantities, totalValue the sum
\* of quantity x sellingPrice, lowStockItems the number of products with
\* 0 < q <= m, outOfStock the number with q <= 0; with no products all four are 0.
C11_StatsAreCurrent ==
  LET n == Len(products)
  IN /\ stats.totalItems = SumTo([i \in 1..n |-> products[i].quantity], n)
     /\ stats.totalValue =
          SumTo([i \in 1..n |-> products[i].quantity * products[i].sellingPrice], n)
     /\ stats.lowStockItems =
          Cardinality({i \in 1..n : products[i].quantity > 0
                                    /\ products[i].quantity <= products[i].minThreshold})
     /\ stats.outOfStock = Cardinality({i \in 1..n : products[i].quantity <= 0})
     /\ n = 0 => stats = [totalItems |-> 0, lowStockItems |-> 0,
                          totalValue |-> 0, outOfStock |-> 0]

\* C11 witness: two products are on display, one low and one negative, the
\* effect has sent a request and the stats are those of the two products.
C11_Witness ==
  /\ Len(products) = 2 /\ Len(analysisLog) > 0
  /\ stats = [totalItems |-> 0, lowStockItems |-> 1, totalValue |-> 1, outOfStock |-> 1]

C16_OfflineRefused ==
  [][/\ (refreshClicks' # refreshClicks /\ ~isOnline)
          => UNCHANGED <<insightCalls, analysisLog, aiAnalysis, isGeneratingInsights>>
     /\ (Len(analysisLog') > Len(analysisLog)) => isOnline']_vars

\* C16 witness: products are on display, the welcome screen is gone, the
\* refresh button was clicked, the session is offline and no request was sent.
C16_Witness ==
  /\ refreshClicks = 1 /\ ~isOnline /\ analysisLog = <<>>
  /\ Len(products) > 0 /\ ~showWelcome
  /\ aiAnalysis = NoAnalysis /\ ~isGeneratingInsights

\* C17 (as claimed): the analysis effect sends at most one request in a
\* session, and none for an empty product list.
C17_AutomaticOnce ==
  /\ Cardinality({i \in 1..Len(analysisLog) : analysisLog[i].how = "effect"}) <= 1
  /\ \A i \in 1..Len(analysisLog) :
       analysisLog[i].how = "effect" => analysisLog[i].products # <<>>

\* ------------------------------------------------ CSV export and import
\* src/services/csvService.ts.  A text is a sequence of characters; the
\* words of the header line are kept as one symbol each.
Comma == ","
Quote == "\""
LF == "\n"
Whitespace == {" ", "\n", "\t", "\r"}
Digits == <<"0", "1", "2", "3", "4", "5", "6", "7", "8", "9">>
IsDigit(c) == \E d \in 1..10 : Digits[d] = c
DigitValue(c) == (CHOOSE d \in 1..10 : Digits[d] = c) - 1

\* Array.prototype.join
RECURSIVE Join(_, _)
Join(parts, sep) ==
  IF parts = <<>> THEN <<>>
  ELSE IF Len(parts) = 1 THEN parts[1]
  ELSE parts[1] \o sep \o Join(Tail(parts), sep)

\* String.prototype.split on a one-character separator
RECURSIVE Split(_, _)
Split(text, sep) ==
  IF \A i \in 1..Len(text) : text[i] # sep THEN <<text>>
  ELSE LET i == CHOOSE j \in 1..Len(text) :
                  /\ text[j] = sep
                  /\ \A k \in 1..(j - 1) : text[k] # sep
       IN <<SubSeq(text, 1, i - 1)>> \o Split(SubSeq(text, i + 1, Len(text)), sep)

RECURSIVE TrimStart(_)
TrimStart(s) ==
  IF s # <<>> /\ s[1] \in Whitespace THEN TrimStart(Tail(s)) ELSE s

RECURSIVE TrimEnd(_)
TrimEnd(s) ==
  IF s # <<>> /\ s[Len(s)] \in Whitespace
  THEN TrimEnd(SubSeq(s, 1, Len(s) - 1)) ELSE s

\* String.prototype.trim
Trim(s) == TrimEnd(TrimStart(s))

\* replace(/^"|"$/g, ''): one quote off the start, one off the end
StripQuotes(s) ==
  LET t == IF s # <<>> /\ s[1] = Quote THEN Tail(s) ELSE s
  IN IF t # <<>> /\ t[Len(t)] = Quote THEN SubSeq(t, 1, Len(t) - 1) ELSE t

\* replace(/""/g, '"')
RECURSIVE UnescapeQuotes(_)
UnescapeQuotes(s) ==
  IF Len(s) < 2 THEN s
  ELSE IF s[1] = Quote /\ s[2] = Quote
       THEN <<Quote>> \o UnescapeQuotes(SubSeq(s, 3, Len(s)))
       ELSE <<s[1]>> \o UnescapeQuotes(Tail(s))

\* replace(/"/g, '""')
RECURSIVE EscapeQuotes(_)
EscapeQuotes(s) ==
  IF s = <<>> THEN <<>>
  ELSE (IF s[1] = Quote THEN <<Quote, Quote>> ELSE <<s[1]>>)
         \o EscapeQuotes(Tail(s))

Quoted(s) == <<Quote>> \o s \o <<Quote>>

\* A number inside a template literal
RECURSIVE NatToString(_)
NatToString(n) ==
  IF n < 10 THEN <<Digits[n + 1]>>
  ELSE NatToString(n \div 10) \o <<Digits[(n % 10) + 1]>>

NumberToString(n) ==
  IF n < 0 THEN <<"-">> \o NatToString(0 - n) ELSE NatToString(n)

\* parseInt and parseFloat: white space, a sign, then the longest prefix
\* of digits; NaN when there is no digit.  The prices of the model are
\* whole numbers, so parseFloat reads what parseInt reads.
NaN == [nan |-> TRUE, value |-> 0]

RECURSIVE DigitPrefix(_)
DigitPrefix(s) ==
  IF s # <<>> /\ IsDigit(s[1]) THEN <<s[1]>> \o DigitPrefix(Tail(s)) ELSE <<>>

RECURSIVE DigitsValue(_)
DigitsValue(ds) ==
  IF ds = <<>> THEN 0
  ELSE 10 * DigitsValue(SubSeq(ds, 1, Len(ds) - 1)) + DigitValue(ds[Len(ds)])

parseInt(s) ==
  LET t == TrimStart(s)
      signed == t # <<>> /\ t[1] \in {"-", "+"}
      ds == DigitPrefix(IF signed THEN Tail(t) ELSE t)
  IN IF ds = <<>> THEN NaN
     ELSE [nan |-> FALSE,
           value |-> IF signed /\ t[1] = "-" THEN 0 - DigitsValue(ds)
                     ELSE DigitsValue(ds)]

parseFloat(s) == parseInt(s)

\* x || 0
OrZero(x) == IF x.nan THEN 0 ELSE x.value

\* values[i] for a 0-based index i; undefined reads as the empty text in
\* `values[i] || ''` and as NaN in parseInt and parseFloat
ValueAt(values, i) == IF i + 1 <= Len(values) THEN values[i + 1] ELSE <<>>

HeaderLine ==
  Join(<<<<"SKU">>, <<"Name">>, <<"Category">>, <<"Quantity">>,
         <<"Min Threshold">>, <<"Purchase Price">>, <<"Selling Price">>,
         <<"Box Number">>, <<"Description">>>>, <<Comma>>)

CsvRow(p) ==
  Join(<<Quoted(p.sku), Quoted(p.name), Quoted(p.category),
         NumberToString(p.quantity), NumberToString(p.minThreshold),
         NumberToString(p.purchasePrice), NumberToString(p.sellingPrice),
         Quoted(p.boxNumber), Quoted(EscapeQuotes(p.description))>>,
       <<Comma>>)

\* exportToCSV: no file for an empty list, else the header and one row
\* for each product
exportToCSV(ps) ==
  IF Len(ps) = 0 THEN [file |-> FALSE, text |-> <<>>]
  ELSE [file |-> TRUE,
        text |-> Join(<<HeaderLine>> \o [i \in 1..Len(ps) |-> CsvRow(ps[i])],
                      <<LF>>)]

MinColumns == 7
UuidBase == 100

\* crypto.randomUUID(): the k-th identifier drawn
randomUUID(k) == UuidBase + k

\* a parser that takes a row of 5 columns
HasFiveColumns(values) == Len(values) >= 5
HasEnoughColumns(values) == Len(values) >= MinColumns

\* a parser that never looks the SKU up
IdAlwaysFresh(sku, existingProducts, fresh) == fresh
\* the id of a parsed row: the existing product of that SKU, else fresh
IdFor(sku, existingProducts, fresh) ==
  IF \E i \in 1..Len(existingProducts) : existingProducts[i].sku = sku
  THEN existingProducts[CHOOSE i \in 1..Len(existingProducts) :
         /\ existingProducts[i].sku = sku
         /\ \A j \in 1..(i - 1) : existingProducts[j].sku # sku].id
  ELSE fresh

CsvValues(line) ==
  LET cells == Split(line, Comma)
  IN [i \in 1..Len(cells) |-> UnescapeQuotes(StripQuotes(Trim(cells[i])))]

ParsedProduct(values, existingProducts, fresh) ==
  [id |-> IdFor(ValueAt(values, 0), existingProducts, fresh),
   sku |-> ValueAt(values, 0),
   name |-> ValueAt(values, 1),
   category |-> ValueAt(values, 2),
   quantity |-> OrZero(parseInt(ValueAt(values, 3))),
   minThreshold |-> OrZero(parseInt(ValueAt(values, 4))),
   purchasePrice |-> OrZero(parseFloat(ValueAt(values, 5))),
   sellingPrice |-> OrZero(parseFloat(ValueAt(values, 6))),
   boxNumber |-> ValueAt(values, 7),
   description |-> ValueAt(values, 8)]

\* the loop of parseCSV over lines[1..], k identifiers drawn so far
RECURSIVE ParseLines(_, _, _)
ParseLines(lines, existingProducts, k) ==
  IF lines = <<>> THEN <<>>
  ELSE IF Trim(lines[1]) = <<>> \/ ~HasEnoughColumns(CsvValues(lines[1]))
       THEN ParseLines(Tail(lines), existingProducts, k)
       ELSE <<ParsedProduct(CsvValues(lines[1]), existingProducts,
                            randomUUID(k + 1))>>
              \o ParseLines(Tail(lines), existingProducts, k + 1)

parseCSV(text, existingProducts, k) ==
  ParseLines(Tail(Split(text, LF)), existingProducts, k)

\* ---------------------------------------- a session of exports and imports
MaxParses == 2

CsvProduct(id, sku, name, quantity, description) ==
  [id |-> id, sku |-> sku, name |-> name, category |-> <<"c">>,
   quantity |-> quantity, minThreshold |-> 1, purchasePrice |-> 2,
   sellingPrice |-> 12, boxNumber |-> <<"b">>, description |-> description]

\* products a user can have typed in: plain, a comma in the name, a quote
\* in the description, a quote in the name, a line break in the description
CsvProducts ==
  {CsvProduct(1, <<"s">>, <<"a">>, 5, <<"d">>),
   CsvProduct(2, <<"t">>, <<"a", ",", "b">>, 0, <<>>),
   CsvProduct(3, <<"u">>, <<"a", " ", "b">>, 10, <<"d", "\"", "q">>),
   CsvProduct(4, <<"v">>, <<"a", "\"", "b">>, -1, <<"d">>),
   CsvProduct(5, <<"w">>, <<"a">>, 3, <<"d", "\n", "e">>)}

CsvCatalogs ==
  {<<>>} \cup {<<p>> : p \in CsvProducts}
         \cup {pq \in CsvProducts \X CsvProducts : pq[1] # pq[2]}

HeaderRow ==
  <<<<"SKU">>, <<"Name">>, <<"Category">>, <<"Quantity">>,
    <<"Min Threshold">>, <<"Purchase Price">>, <<"Selling Price">>>>
FileRow(sku, quantity) ==
  <<sku, <<"n">>, <<"c">>, quantity, <<"1">>, <<"2">>, <<"1", "2">>>>
ShortRow(sku) == <<sku, <<"n">>, <<"c">>, <<"4">>, <<"1">>>>
NotANumber == <<"a", "b", "c">>

\* files written by hand, each a list of rows of cells
CsvFiles ==
  {<<HeaderRow, FileRow(<<"s">>, <<"7">>), ShortRow(<<"x">>),
     FileRow(<<"y">>, NotANumber), FileRow(<<"S">>, <<"1", "0">>)>>,
   <<FileRow(<<"s">>, <<"7">>), FileRow(<<"y">>, <<"-", "2">>), <<<<>>>>,
     FileRow(<<"y">>, <<"0">>)>>,
   <<HeaderRow, ShortRow(<<"s">>), <<<<"s">>>>>>}

WriteFile(rows) ==
  Join([i \in 1..Len(rows) |-> Join(rows[i], <<Comma>>)], <<LF>>)

\* A session whose catalog is loaded and rendered.
CsvInit ==
  /\ products \in CsvCatalogs
  /\ dbProducts = Range(products) /\ dbTransactions = <<>>
  /\ productEvents = 0 /\ transactionEvents = 0 /\ fetches = EmptyBag
  /\ transactions = <<>>
  /\ isLoadingDB = FALSE
  /\ initData = [pc |-> "done", p |-> <<>>, tx |-> <<>>]
  /\ isModalOpen = FALSE /\ modalType = "STOCK_ACTION"
  /\ selectedProduct = NoProduct /\ stockActionType = TxIN
  /\ calls = {} /\ alerts = <<>> /\ clock = 0
  /\ isOnline = FALSE /\ lang = "en" /\ showWelcome = FALSE
  /\ aiAnalysis = NoAnalysis /\ isGeneratingInsights = FALSE
  /\ stats = InventoryStats(products)
  /\ hookDeps = [memo |-> products,
                 effect |-> EffectDeps(products, isOnline, lang, showWelcome)]
  /\ insightCalls = {} /\ analysisLog = <<>> /\ refreshClicks = 0
  /\ CsvAtRest
  /\ DriveAtRest

csvFrame ==
  <<dbVars, memVars, isLoadingDB, initData, uiVars, calls, alerts, clock,
    hookVars, driveVars, uploadVars>>

\* Export CSV: the browser downloads the text exportToCSV builds
ExportCSV ==
  /\ LET out == exportToCSV(products)
     IN IF out.file
        THEN /\ csvText' = out.text
             /\ csvSource' = [kind |-> "export", rows |-> <<>>]
        ELSE UNCHANGED <<csvText, csvSource>>
  /\ UNCHANGED <<importedProducts, lastParse, csvFrame>>

\* the user picks a hand-written file
ChooseFile ==
  /\ \E rows \in CsvFiles :
       /\ csvText' = WriteFile(rows)
       /\ csvSource' = [kind |-> "rows", rows |-> rows]
  /\ UNCHANGED <<importedProducts, lastParse, csvFrame>>

\* parseCSV on the file at hand, against the catalog in memory or against
\* the empty catalog of a new installation
ParseFile ==
  /\ csvSource # NoSource
  /\ lastParse.calls < MaxParses
  /\ \E existingProducts \in {products, <<>>} :
       LET result == parseCSV(csvText, existingProducts, lastParse.drawn)
       IN /\ importedProducts' = result
          /\ lastParse' = [parsed |-> TRUE, text |-> csvText,
                           source |-> csvSource,
                           existingProducts |-> existingProducts,
                           calls |-> lastParse.calls + 1,
                           drawn |-> lastParse.drawn + Len(result)]
  /\ UNCHANGED <<csvText, csvSource, csvFrame>>

CsvNext == ExportCSV \/ ChooseFile \/ ParseFile

SpecCsv == CsvInit /\ [][CsvNext]_vars


\* ------------------------------------------------------ claims on the CSV
ExistingIds(ps) == {ps[i].id : i \in 1..Len(ps)}
HasSku(ps, sku) == \E i \in 1..Len(ps) : ps[i].sku = sku

\* C12: a parsed row whose SKU is the SKU of an existing product carries the
\* id of an existing product of that SKU; a row whose SKU is new carries an
\* id that no existing product has and no other new record of the batch has.
C12_ImportIds ==
  lastParse.parsed =>
    \A i \in 1..Len(importedProducts) :
      LET r == importedProducts[i]
          catalog == lastParse.existingProducts
      IN IF HasSku(catalog, r.sku)
         THEN \E k \in 1..Len(catalog) :
                catalog[k].sku = r.sku /\ catalog[k].id = r.id
         ELSE /\ r.id \notin ExistingIds(catalog)
              /\ \A j \in 1..Len(importedProducts) :
                   (j # i /\ ~HasSku(catalog, importedProducts[j].sku))
                     => importedProducts[j].id # r.id

\* A batch with a row of an existing SKU and two rows of new SKUs.
C12_Witness ==
  /\ lastParse.parsed
  /\ \E i, j, k \in 1..Len(importedProducts) :
       /\ HasSku(lastParse.existingProducts, importedProducts[i].sku)
       /\ j # k
       /\ ~HasSku(lastParse.existingProducts, importedProducts[j].sku)
       /\ ~HasSku(lastParse.existingProducts, importedProducts[k].sku)


\* What one expects of a hand-written file: the rows after the first that
\* have at least 7 cells, in order, a numeric cell read as the number it
\* spells and `abc' as 0.
RECURSIVE LongRows(_)
LongRows(rows) ==
  IF rows = <<>> THEN <<>>
  ELSE (IF Len(rows[1]) >= 7 THEN <<rows[1]>> ELSE <<>>) \o LongRows(Tail(rows))

Spelled(cell) ==
  IF cell = NotANumber THEN 0
  ELSE CHOOSE n \in -20..20 : NumberToString(n) = cell

\* C14: parseCSV skips the first line, skips a row of fewer than 7 columns,
\* reads a non-numeric numeric cell as 0, and still imports the other rows.
C14_BadRowsSkipped ==
  (lastParse.parsed /\ lastParse.source.kind = "rows") =>
    LET rows == LongRows(Tail(lastParse.source.rows))
    IN /\ Len(importedProducts) = Len(rows)
       /\ \A i \in 1..Len(rows) :
            /\ importedProducts[i].sku = rows[i][1]
            /\ importedProducts[i].name = rows[i][2]
            /\ importedProducts[i].category = rows[i][3]
            /\ importedProducts[i].quantity = Spelled(rows[i][4])
            /\ importedProducts[i].minThreshold = Spelled(rows[i][5])
            /\ importedProducts[i].purchasePrice = Spelled(rows[i][6])
            /\ importedProducts[i].sellingPrice = Spelled(rows[i][7])

\* The file with a header, a 5-column row and an `abc' quantity was parsed:
\* three records, the second with quantity 0.
C14_Witness ==
  /\ lastParse.parsed
  /\ lastParse.source.kind = "rows"
  /\ \E r \in 1..Len(lastParse.source.rows) : Len(lastParse.source.rows[r]) = 5
  /\ \E r \in 1..Len(lastParse.source.rows) :
       Len(lastParse.source.rows[r]) = 7 /\ lastParse.source.rows[r][4] = NotANumber
  /\ Len(importedProducts) = 3
  /\ importedProducts[2].quantity = 0
  /\ importedProducts[3].quantity = 10

\* C13: parsing the text exportToCSV wrote, against an empty catalog, gives
\* as many products as were exported, in the same order, with the same SKU,
\* name, category, quantity, minimum threshold and prices.
C13_RoundTrip ==
  (/\ lastParse.parsed
   /\ lastParse.source.kind = "export"
   /\ lastParse.existingProducts = <<>>) =>
    /\ Len(importedProducts) = Len(products)
    /\ \A i \in 1..Len(products) :
         /\ importedProducts[i].sku = products[i].sku
         /\ importedProducts[i].name = products[i].name
         /\ importedProducts[i].category = products[i].category
         /\ importedProducts[i].quantity = products[i].quantity
         /\ importedProducts[i].minThreshold = products[i].minThreshold
         /\ importedProducts[i].purchasePrice = products[i].purchasePrice
         /\ importedProducts[i].sellingPrice = products[i].sellingPrice


\* ------------------------------------------------ backup to Google Drive
\* The handlers of the Drive backup, each run to its end with no other
\* handler in between and the subscription's refetch delivered last.
MaxBackupOps == 3
MaxBackupAlerts == 2

\* supabaseService's batch upsert: each row replaces the row of its id
RECURSIVE upsertProducts(_, _)
upsertProducts(table, batch) ==
  IF batch = <<>> THEN table
  ELSE upsertProducts(upsertProduct(table, Head(batch)), Tail(batch))

BackupInit ==
  /\ dbProducts = InitialProducts /\ dbTransactions = <<>>
  /\ productEvents = 0 /\ transactionEvents = 0 /\ fetches = EmptyBag
  /\ products = OrderByName(InitialProducts) /\ transactions = <<>>
  /\ isLoadingDB = FALSE
  /\ initData = [pc |-> "done", p |-> <<>>, tx |-> <<>>]
  /\ isModalOpen = FALSE /\ modalType = "STOCK_ACTION"
  /\ selectedProduct = NoProduct /\ stockActionType = TxIN
  /\ calls = {} /\ alerts = <<>> /\ clock = 0
  /\ HooksAtRest
  /\ CsvAtRest
  /\ DriveAtRest

backupFrame ==
  <<productEvents, transactionEvents, fetches, isLoadingDB, initData,
    calls, hookVars, csvVars, uploadVars>>

handleDriveConnect ==
  /\ ~isDriveConnected
  /\ Len(alerts) < MaxBackupAlerts
  /\ \/ isDriveConnected' = TRUE /\ UNCHANGED alerts
     \/ /\ alerts' = Append(alerts, "Failed to connect to Google Drive.")
        /\ UNCHANGED isDriveConnected
  /\ UNCHANGED <<dbProducts, dbTransactions, memVars, clock, driveFile, uiVars,
                 backupFrame>>

handleDriveLogout ==
  /\ isDriveConnected
  /\ isDriveConnected' = FALSE
  /\ UNCHANGED <<dbProducts, dbTransactions, memVars, clock, alerts, driveFile,
                 uiVars, backupFrame>>

\* a stock movement, from the form to the refetch of both subscriptions
StockMovementRun ==
  /\ clock < MaxBackupOps
  /\ \E i \in 1..Len(products), type \in TransactionType, amount \in Amounts :
       LET product == products[i]
           now == clock + 1
       IN /\ type = TxIN => product.quantity + amount <= MaxQty
          /\ clock' = now
          /\ stockActionType' = type
          /\ dbProducts' =
               upsertProduct(dbProducts, updatedProduct(type, product, amount, ""))
          /\ dbTransactions' =
               logTransaction(dbTransactions,
                              newTx(now, type, product, amount, Reason, ""))
  /\ products' = fetchProducts'
  /\ transactions' = fetchTransactions'
  /\ modalType' = "STOCK_ACTION"
  /\ UNCHANGED <<isModalOpen, selectedProduct, alerts, driveVars, backupFrame>>

\* a product created with the product form, up to the refetch
ProductCreationRun ==
  /\ clock < MaxBackupOps
  /\ \E initialStock \in {2} :
       LET now == clock + 1
       IN /\ clock' = now
          /\ dbProducts' =
               upsertProduct(dbProducts,
                 finalProduct(now, NoProduct,
                              [minThreshold |-> 0, boxNumber |-> "A",
                               quantity |-> initialStock]))
  /\ products' = fetchProducts'
  /\ modalType' = "PRODUCT_FORM"
  /\ UNCHANGED <<dbTransactions, transactions, isModalOpen, selectedProduct,
                 stockActionType, alerts, driveVars, backupFrame>>

\* handleDriveBackup: uploadToDrive replaces the one backup file, or fails
handleDriveBackup ==
  /\ isDriveConnected
  /\ clock < MaxBackupOps
  /\ Len(alerts) < MaxBackupAlerts
  /\ clock' = clock + 1
  /\ \/ /\ driveFile' = [exists |-> TRUE, products |-> products,
                         transactions |-> transactions]
        /\ alerts' = Append(alerts, "Backup successful!")
     \/ /\ alerts' = Append(alerts, "Backup failed.")
        /\ UNCHANGED driveFile
  /\ UNCHANGED <<dbProducts, dbTransactions, memVars, isDriveConnected, uiVars,
                 backupFrame>>

\* handleBulkImport as handleDriveRestore awaits it: upsertProducts, then
\* the products subscription refetches the products
handleBulkImport(batch) ==
  /\ dbProducts' = upsertProducts(dbProducts, batch)
  /\ products' = fetchProducts'
  /\ UNCHANGED <<dbTransactions, transactions>>

\* handleDriveRestore, the confirm dialog accepted
handleDriveRestore ==
  /\ isDriveConnected
  /\ Len(alerts) < MaxBackupAlerts
  /\ \/ /\ driveFile.exists
        /\ handleBulkImport(driveFile.products)
        /\ alerts' = Append(alerts, "Restore successful!")
     \/ /\ driveFile.exists
        /\ alerts' = alerts \o <<"Failed to import products to cloud.",
                                 "Restore successful!">>
        /\ UNCHANGED <<dbProducts, dbTransactions, memVars>>
     \/ /\ alerts' = Append(alerts, "Restore failed.")
        /\ UNCHANGED <<dbProducts, dbTransactions, memVars>>
  /\ UNCHANGED <<clock, driveVars, uiVars, backupFrame>>

BackupNext ==
  \/ handleDriveConnect \/ handleDriveLogout
  \/ StockMovementRun \/ ProductCreationRun
  \/ handleDriveBackup \/ handleDriveRestore

SpecBackup == BackupInit /\ [][BackupNext]_vars

\* C20: a restore that reports success leaves the products and the
\* transactions in memory equal to those of the backup file.
C20_RestoreEqualsSnapshot ==
  [][alerts' = Append(alerts, "Restore successful!")
       => /\ products' = driveFile.products
          /\ transactions' = driveFile.transactions]_vars


\* ------------------------------------------- claims on overlapping requests
\* C29: the loading flag is up exactly when a runAnalysis call is still at
\* its await of getInventoryInsights.
C29_LoadingFlagTracksRequests ==
  isGeneratingInsights <=> (insightCalls # {})

\* C30: when a runAnalysis call resumes after a call that was started later
\* has already resumed, it leaves the analysis on display as it is.
C30_LatestRequestWins ==
  [][\A c \in insightCalls :
       (/\ c.pc = "returned" /\ c \notin insightCalls'
        /\ \E n \in (c.n + 1)..Len(analysisLog) :
             \A d \in insightCalls : d.n # n)
       => aiAnalysis' = aiAnalysis]_vars

\* ------------------------------------------------ claims on duplicate rows
\* C25: no Transaction id occurs twice in the transactions in memory.
C25_NoDuplicateTransaction ==
  \A i, j \in 1..Len(transactions) :
    transactions[i].id = transactions[j].id => i = j

\* C26: no product id occurs twice in the products in memory.
C26_NoDuplicateProduct ==
  \A i, j \in 1..Len(products) : products[i].id = products[j].id => i = j


\* ------------------------------------------------ reads of the store fail
\* fetchProducts and fetchTransactions answer [] when the read fails.  The
\* session below watches a store that other sessions write to; its tables
\* are never empty, so an empty answer is the answer of a failed read.
MaxRemoteWrites == 2

\* a Transaction logged before the session started
EarlierTx ==
  [id |-> 0 - 1, productId |-> 1, type |-> TxIN, quantity |-> 1,
   reason |-> Reason, timestamp |-> 0 - 1]

FailedRead == <<>>

RefreshInit ==
  /\ dbProducts = InitialProducts
  /\ dbTransactions = <<EarlierTx>>
  /\ productEvents = 0 /\ transactionEvents = 0 /\ fetches = EmptyBag
  /\ products = <<>> /\ transactions = <<>>
  /\ isLoadingDB = TRUE
  /\ initData = [pc |-> "fetchProducts", p |-> <<>>, tx |-> <<>>]
  /\ isModalOpen = FALSE /\ modalType = "STOCK_ACTION"
  /\ selectedProduct = NoProduct /\ stockActionType = TxIN
  /\ calls = {} /\ alerts = <<>> /\ clock = 0
  /\ HooksAtRest
  /\ CsvAtRest
  /\ DriveAtRest

refreshFrame == <<isLoadingDB, uiVars, calls, alerts, sideVars>>

\* another session moves stock: the store applies its two writes and
\* announces each
RemoteStockMovement ==
  /\ clock < MaxRemoteWrites
  /\ \E product \in dbProducts, type \in TransactionType :
       LET now == clock + 1
       IN /\ clock' = now
          /\ dbProducts' = upsertProduct(dbProducts, updatedProduct(type, product, 1, ""))
          /\ dbTransactions' =
               logTransaction(dbTransactions, newTx(now, type, product, 1, Reason, ""))
  /\ productEvents' = productEvents + 1
  /\ transactionEvents' = transactionEvents + 1
  /\ UNCHANGED <<fetches, memVars, initData, refreshFrame>>

\* initData: fetchProducts() resolves to [] on an error
InitFetchProductsFails ==
  /\ initData.pc = "fetchProducts"
  /\ initData' = [initData EXCEPT !.pc = "fetchTransactions", !.p = FailedRead]
  /\ UNCHANGED <<dbVars, memVars, clock, refreshFrame>>

\* initData: fetchTransactions() resolves to [] on an error
InitFetchTransactionsFails ==
  /\ initData.pc = "fetchTransactions"
  /\ initData' = [initData EXCEPT !.pc = "loaded", !.tx = FailedRead]
  /\ UNCHANGED <<dbVars, memVars, clock, refreshFrame>>

\* the products handler's fetchProducts() fails
OnProductsChangeFails ==
  /\ productEvents > 0
  /\ productEvents' = productEvents - 1
  /\ fetches' = fetches (+) SetToBag({[table |-> "products", data |-> FailedRead]})
  /\ UNCHANGED <<dbProducts, dbTransactions, transactionEvents, memVars, initData,
                 clock, refreshFrame>>

\* the transactions handler's fetchTransactions() fails
OnTransactionInsertFails ==
  /\ transactionEvents > 0
  /\ transactionEvents' = transactionEvents - 1
  /\ fetches' = fetches (+) SetToBag({[table |-> "transactions", data |-> FailedRead]})
  /\ UNCHANGED <<dbProducts, dbTransactions, productEvents, memVars, initData,
                 clock, refreshFrame>>

RefreshNext ==
  \/ InitFetchProducts \/ InitFetchProductsFails
  \/ InitFetchTransactions \/ InitFetchTransactionsFails
  \/ InitDataDone
  \/ RemoteStockMovement
  \/ OnProductsChange \/ OnProductsChangeFails
  \/ OnTransactionInsert \/ OnTransactionInsertFails
  \/ ProductsFetched \/ TransactionsFetched

SpecRefresh == RefreshInit /\ [][RefreshNext]_vars

\* C27: the answer of a failed read, delivered by a subscription handler or
\* by initData, leaves the collection in memory as it was.
C27_FailedReadKeepsMemory ==
  [][/\ \A f \in BagToSet(fetches) :
          (f.data = FailedRead /\ fetches' = fetches (-) SetToBag({f}))
            => /\ f.table = "products" => products' = products
               /\ f.table = "transactions" => transactions' = transactions
     /\ (initData.pc = "loaded" /\ initData'.pc = "done")
          => /\ initData.p = FailedRead => products' = products
             /\ initData.tx = FailedRead => transactions' = transactions]_vars


\* ------------------------------------------------ claims on the two forms
\* C22: the record a product creation hands to upsertProduct holds the
\* minimum threshold and the quantity the form supplied.
C22_SuppliedNumbersStored ==
  [][\A c \in calls' \ calls :
       (c.kind = "save" /\ c.product = NoProduct)
         => /\ c.written.minThreshold \in ThresholdInputs
            /\ c.written.quantity \in InitialStockInputs]_vars


Annotated(reason, box) == reason \o " (Box: " \o box \o ")"

\* C23: a stock movement replaces the box and annotates the reason with the
\* new box exactly when a new box is given and differs from the product's
\* box; with no new box, or the product's own box, the box stays and the
\* reason is recorded as typed.
C23_BoxChangeAnnotated ==
  /\ \A c \in calls :
       c.kind = "stock" =>
         IF c.written.boxNumber # c.product.boxNumber
         THEN c.tx.reason = Annotated(Reason, c.written.boxNumber)
         ELSE c.tx.reason = Reason
  /\ \A i \in 1..Len(products), type \in TransactionType :
     \A newBoxNumber \in NewBoxInputs \cup {products[i].boxNumber} :
       LET written == updatedProduct(type, products[i], 1, newBoxNumber)
           tx == newTx(clock + 1, type, products[i], 1, Reason, newBoxNumber)
       IN IF newBoxNumber # "" /\ newBoxNumber # products[i].boxNumber
          THEN written.boxNumber = newBoxNumber
               /\ tx.reason = Annotated(Reason, newBoxNumber)
          ELSE written.boxNumber = products[i].boxNumber /\ tx.reason = Reason

\* A movement to box B is in the log with its annotation, and a second
\* movement that names box B again is on its way with the reason as typed.
C23_Witness ==
  /\ \E k \in 1..Len(dbTransactions) :
       dbTransactions[k].reason = Annotated(Reason, "B")
  /\ \E c \in calls :
       /\ c.kind = "stock"
       /\ c.product.boxNumber = "B" /\ c.written.boxNumber = "B"
       /\ c.tx.reason = Reason


\* ------------------------------------------- the request's transactions
\* The hooks in a session that has loaded a log of past movements.
MaxLogged == 21

LoggedTx(k) ==
  [id |-> k, productId |-> 1, type |-> IF k % 2 = 0 THEN TxIN ELSE TxOUT,
   quantity |-> 1, reason |-> Reason, timestamp |-> k]

LogSizes == {0, 1, MaxLogged - 2, MaxLogged - 1, MaxLogged}

RequestInit ==
  /\ \E n \in LogSizes :
       /\ dbTransactions = [k \in 1..n |-> LoggedTx(k)]
       /\ transactions = OrderByTimestampDesc({LoggedTx(k) : k \in 1..n})
  /\ dbProducts = {}
  /\ productEvents = 0 /\ transactionEvents = 0 /\ fetches = EmptyBag
  /\ products = <<>>
  /\ isLoadingDB = FALSE
  /\ initData = [pc |-> "done", p |-> <<>>, tx |-> <<>>]
  /\ isModalOpen = FALSE /\ modalType = "STOCK_ACTION"
  /\ selectedProduct = NoProduct /\ stockActionType = TxIN
  /\ calls = {} /\ alerts = <<>> /\ clock = 0
  /\ isOnline \in BOOLEAN /\ lang = "en" /\ showWelcome \in BOOLEAN
  /\ HooksMounted
  /\ CsvAtRest
  /\ DriveAtRest

SpecRequest == RequestInit /\ [][RenderNext]_vars

\* C21: every request sent carries the 20 transactions in memory with the
\* greatest timestamps, or all of them when there are fewer than 20.
C21_MostRecentTransactionsSent ==
  \A k \in 1..Len(analysisLog) :
    LET sent == Range(analysisLog[k].transactions)
        held == Range(transactions)
    IN /\ sent \subseteq held
       /\ Cardinality(sent) = Min(InsightTxLimit, Len(transactions))
       /\ \A t \in sent : \A u \in held \ sent : t.timestamp > u.timestamp


\* --------------------------------------------- uploadToDrive, step by step
\* src/services/driveService.ts.  A backup's data is the time it was made.
MaxUploads == 4

UploadInit ==
  /\ dbProducts = InitialProducts /\ dbTransactions = <<>>
  /\ productEvents = 0 /\ transactionEvents = 0 /\ fetches = EmptyBag
  /\ products = OrderByName(InitialProducts) /\ transactions = <<>>
  /\ isLoadingDB = FALSE
  /\ initData = [pc |-> "done", p |-> <<>>, tx |-> <<>>]
  /\ isModalOpen = FALSE /\ modalType = "STOCK_ACTION"
  /\ selectedProduct = NoProduct /\ stockActionType = TxIN
  /\ calls = {} /\ alerts = <<>> /\ clock = 0
  /\ HooksAtRest
  /\ CsvAtRest
  /\ DriveAtRest

uploadFrame ==
  <<dbVars, memVars, isLoadingDB, initData, uiVars, calls, alerts, hookVars,
    csvVars, driveVars>>

\* uploadToDrive(data) up to its await of findBackupFile()
uploadToDrive(s) ==
  /\ uploads[s].pc = "idle"
  /\ clock < MaxUploads
  /\ clock' = clock + 1
  /\ uploads' = [uploads EXCEPT ![s] =
                   [pc |-> "findBackupFile", fileId |-> 0, data |-> clock + 1]]
  /\ UNCHANGED <<driveFiles, lastUploaded, uploadFrame>>

\* files.list answers: files[0] of the files of that name, or null
findBackupFile(s) ==
  /\ uploads[s].pc = "findBackupFile"
  /\ uploads' = [uploads EXCEPT ![s].pc = "request",
                                ![s].fileId = IF driveFiles = <<>> THEN 0
                                              ELSE driveFiles[1].id]
  /\ UNCHANGED <<driveFiles, lastUploaded, clock, uploadFrame>>

\* files.list or the upload request is rejected: uploadToDrive throws
UploadFails(s) ==
  /\ uploads[s].pc \in {"findBackupFile", "request"}
  /\ uploads' = [uploads EXCEPT ![s] = NoUpload]
  /\ UNCHANGED <<driveFiles, lastUploaded, clock, uploadFrame>>

\* the Drive serves PATCH /files/{fileId} or POST /files
DriveWrite(files, fileId, data) ==
  IF fileId # 0
  THEN [k \in 1..Len(files) |->
          IF files[k].id = fileId THEN [files[k] EXCEPT !.content = data]
          ELSE files[k]]
  ELSE Append(files, [id |-> Len(files) + 1, content |-> data])

DriveServesRequest(s) ==
  /\ uploads[s].pc = "request"
  /\ driveFiles' = DriveWrite(driveFiles, uploads[s].fileId, uploads[s].data)
  /\ lastUploaded' = uploads[s].data
  /\ uploads' = [uploads EXCEPT ![s] = NoUpload]
  /\ UNCHANGED <<clock, uploadFrame>>

UploadNext ==
  \E s \in Sessions :
    \/ uploadToDrive(s) \/ findBackupFile(s) \/ UploadFails(s)
    \/ DriveServesRequest(s)

SpecUpload == UploadInit /\ [][UploadNext]_vars

\* C24: the Drive holds at most one backup file, and once a backup has
\* completed it holds the data of the backup completed last.
C24_OneBackupFile ==
  /\ Len(driveFiles) <= 1
  /\ lastUploaded # 0 =>
       Len(driveFiles) = 1 /\ driveFiles[1].content = lastUploaded


\* ------------------------------------------------- importing a CSV file
\* handleLocalRestore: the file is parsed against the products in memory
\* and the batch goes to upsertProducts; memory follows when the products
\* subscription refetches.
MaxImports == 2

ImportInit ==
  /\ products \in {<<>>, <<CsvProduct(1, <<"s">>, <<"a">>, 5, <<"d">>)>>}
  /\ dbProducts = Range(products) /\ dbTransactions = <<>>
  /\ productEvents = 0 /\ transactionEvents = 0 /\ fetches = EmptyBag
  /\ transactions = <<>>
  /\ isLoadingDB = FALSE
  /\ initData = [pc |-> "done", p |-> <<>>, tx |-> <<>>]
  /\ isModalOpen = FALSE /\ modalType = "STOCK_ACTION"
  /\ selectedProduct = NoProduct /\ stockActionType = TxIN
  /\ calls = {} /\ alerts = <<>> /\ clock = 0
  /\ HooksAtRest
  /\ CsvAtRest
  /\ DriveAtRest

handleLocalRestore ==
  /\ csvSource # NoSource
  /\ lastParse.calls < MaxImports
  /\ LET result == parseCSV(csvText, products, lastParse.drawn)
     IN /\ importedProducts' = result
        /\ lastParse' = [parsed |-> TRUE, text |-> csvText, source |-> csvSource,
                         existingProducts |-> products,
                         calls |-> lastParse.calls + 1,
                         drawn |-> lastParse.drawn + Len(result)]
        /\ IF Len(result) > 0
           THEN \/ /\ dbProducts' = upsertProducts(dbProducts, result)
                   /\ productEvents' = productEvents + 1
                   /\ alerts' = Append(alerts, "Successfully imported")
                \/ /\ alerts' = alerts \o <<"Failed to import products to cloud.",
                                           "Successfully imported">>
                   /\ UNCHANGED <<dbProducts, productEvents>>
           ELSE UNCHANGED <<dbProducts, productEvents, alerts>>
  /\ UNCHANGED <<dbTransactions, transactionEvents, fetches, memVars, isLoadingDB,
                 initData, uiVars, calls, clock, csvText, csvSource, hookVars,
                 driveVars, uploadVars>>

ImportNext ==
  ChooseFile \/ handleLocalRestore \/ OnProductsChange \/ ProductsFetched

SpecImport == ImportInit /\ [][ImportNext]_vars

StoreIds(table) == {row.id : row \in table}

\* C28: importing the file that was imported last, with the first batch in
\* the store, leaves the store with the product ids it had.
C28_SecondImportAddsNoProduct ==
  [][(/\ lastParse.parsed
      /\ lastParse'.calls = lastParse.calls + 1
      /\ lastParse.text = csvText
      /\ Range(importedProducts) \subseteq dbProducts)
       => StoreIds(dbProducts') = StoreIds(dbProducts)]_vars

=============================================================================
